---------------------------- MODULE Spec2Model ----------------------------
(***************************************************************************)
(* LightingEvents.h: time-based light animations rendered on an            *)
(* addressable LED strip.  One event instance (BackupEvent, BrakingEvent,  *)
(* SignalEvent or PoliceLightBar) is bound to the strip; the caller drives *)
(* it with Begin(), Draw() and End() while the millisecond clock advances. *)
(* A second instance, a BackupEvent bound to the same strip, is driven     *)
(* along with a BrakingEvent in the specification SpecTwo.                 *)
(*                                                                         *)
(* The source computes with C `float` (IEEE-754 binary32).  The results of *)
(* its truncations depend on the rounding of every intermediate value, so  *)
(* the arithmetic is modelled bit-exactly: a float is a record [m, e]      *)
(* standing for m * 2^e with 2^23 <= m < 2^24, or ZeroF.                   *)
(***************************************************************************)
EXTENDS Integers, Sequences, FiniteSets

(***************************************************************************)
(* Bounds of the model.                                                    *)
(***************************************************************************)
\* width in bits of the modelled millis() counter (unsigned long)
ClockBits == 12
\* the clock advances between calls in steps of TickMs milliseconds
TickMs == 75
\* the finer step used with a BackupEvent, whose bloom ends 250 ms after
\* Begin()
BackupTickMs == 25
\* no step takes the clock further than the horizon of the event's class past
\* construction: each horizon spans every phase of the class's animation
BackupHorizonMs == 450
BrakingHorizonMs == 700
SignalHorizonMs == 2025
PoliceHorizonMs == 1600
\* largest usable pixel count explored (NUMBER_USED_PIXELS)
MaxUsedPixels == 11
\* a usable pixel count of which a tenth is a whole pixel
TenthsUsedPixels == 10
\* with two events on the strip, no step starts later than this after
\* construction
TwoHorizonMs == 300

ClockMod == 2 ^ ClockBits

(***************************************************************************)
(* binary32 arithmetic                                                     *)
(***************************************************************************)
MantBits == 24
MantLo == 2 ^ (MantBits - 1)
MantHi == 2 ^ MantBits

ZeroF == [m |-> 0, e |-> 0]

\* the number of bits of n >= 1
RECURSIVE BitLen(_)
BitLen(n) == IF n < 2 THEN 1 ELSE 1 + BitLen(n \div 2)

\* n * 2^e, n >= 0, rounded to nearest (ties to even) and normalized.
\* `sticky` says that the exact value lies strictly between n and n+1 units.
RoundSticky(n, e, sticky) ==
    IF n = 0 THEN ZeroF
    ELSE LET k == BitLen(n) - MantBits
         IN  IF k <= 0
             THEN [m |-> n * 2 ^ (-k), e |-> e + k]
             ELSE LET d    == 2 ^ k
                      q    == n \div d
                      r    == n % d
                      half == d \div 2
                      up   == \/ r > half
                              \/ r = half /\ sticky
                              \/ r = half /\ ~sticky /\ q % 2 = 1
                      q2   == IF up THEN q + 1 ELSE q
                  IN  IF q2 = MantHi
                      THEN [m |-> MantLo, e |-> e + k + 1]
                      ELSE [m |-> q2, e |-> e + k]

Round(n, e) == RoundSticky(n, e, FALSE)

\* conversion of a non-negative integer to float
FromInt(n) == Round(n, 0)

\* binary long division: the quotient a/b with 25 significant bits
RECURSIVE DivBits(_, _, _, _)
DivBits(q, r, b, e) ==
    IF q >= MantHi THEN [q |-> q, r |-> r, e |-> e]
    ELSE DivBits(2 * q + ((2 * r) \div b), (2 * r) % b, b, e - 1)

\* fl(a / b) for integers a >= 0, b > 0, both exactly representable
FDivInts(a, b) ==
    IF a = 0 THEN ZeroF
    ELSE LET s == DivBits(a \div b, a % b, b, 0)
         IN  RoundSticky(s.q, s.e, s.r # 0)

\* x * 2^k: division or multiplication by a power of two is exact
FScale(x, k) == IF x.m = 0 THEN ZeroF ELSE [m |-> x.m, e |-> x.e + k]

\* fl(n * x) for a small non-negative integer n (int converted to float)
FMulInt(n, x) == Round(n * x.m, x.e)

FLess(x, y) ==
    IF x.m = 0 THEN y.m # 0
    ELSE IF y.m = 0 THEN FALSE
    ELSE \/ x.e < y.e
         \/ x.e = y.e /\ x.m < y.m

FLeq(x, y) == x = y \/ FLess(x, y)

FMin(x, y) == IF FLess(y, x) THEN y ELSE x

\* fl(x - y) for x >= y >= 0
FSub(x, y) ==
    IF y.m = 0 THEN x
    ELSE LET gap == x.e - y.e
         IN  IF gap <= 6
             THEN Round(x.m * 2 ^ gap - y.m, y.e)
             ELSE LET sh  == gap - 6
                      big == sh > MantBits
                      ym  == IF big THEN 0 ELSE y.m \div 2 ^ sh
                      st  == big \/ y.m % 2 ^ sh # 0
                      n   == x.m * 64 - ym
                  IN  IF st THEN RoundSticky(2 * n - 1, x.e - 7, TRUE)
                      ELSE Round(n, x.e - 6)

\* fl(x + y) for x >= y >= 0
FAddOrd(x, y) ==
    IF y.m = 0 THEN x
    ELSE LET gap == x.e - y.e
         IN  IF gap <= 6
             THEN Round(x.m * 2 ^ gap + y.m, y.e)
             ELSE LET sh  == gap - 6
                      big == sh > MantBits
                      ym  == IF big THEN 0 ELSE y.m \div 2 ^ sh
                      st  == big \/ y.m % 2 ^ sh # 0
                  IN  RoundSticky(x.m * 64 + ym, x.e - 6, st)

FAdd(x, y) == IF FLess(x, y) THEN FAddOrd(y, x) ELSE FAddOrd(x, y)

\* fmod(x, y) for x >= 0, y > 0: exact, no rounding
FMod(x, y) ==
    IF FLess(x, y) THEN x
    ELSE Round((x.m * 2 ^ (x.e - y.e)) % y.m, y.e)

\* conversion of a float >= 0 to an integer type: truncation
FTrunc(x) ==
    IF x.m = 0 THEN 0
    ELSE IF x.e >= 0 THEN x.m * 2 ^ x.e
    ELSE IF -x.e >= MantBits THEN 0
    ELSE x.m \div 2 ^ (-x.e)


(***************************************************************************)
(* Configuration supplied from outside the header: colors, pixel counts.   *)
(***************************************************************************)
COLOR_BLACK    == "BLACK"
COLOR_WHITE    == "WHITE"
COLOR_RED      == "RED"
COLOR_DARK_RED == "DARK_RED"
COLOR_BLUE     == "BLUE"
COLOR_AMBER    == "AMBER"
Colors == {COLOR_BLACK, COLOR_WHITE, COLOR_RED, COLOR_DARK_RED, COLOR_BLUE,
           COLOR_AMBER}
\* what a read past the end of sectionColor[8] can yield: any 32-bit word,
\* one that happens to be a color of the row or one that is no color at all
GARBAGE == "GARBAGE"
OobValues == {COLOR_RED, GARBAGE}

Kinds == {"BackupEvent", "BrakingEvent", "SignalEvent", "PoliceLightBar"}

\* enum SIGNAL_STYLE
INVALID    == "INVALID"
LEFT_TURN  == "LEFT_TURN"
RIGHT_TURN == "RIGHT_TURN"
HAZARD     == "HAZARD"
SIGNAL_STYLE == {INVALID, LEFT_TURN, RIGHT_TURN, HAZARD}

\* the police bar splits the strip into 8 sections
SectionCount == 8

\* usable pixel counts explored: the smallest with a positive section size,
\* a multiple of ten, one that 8 does not divide, and one with two pixels
\* per section
UsedPixelCounts ==
    {SectionCount, TenthsUsedPixels, MaxUsedPixels, 2 * SectionCount}
\* signalPixelCount <= usablePixelCount / 2
TurnPixelCounts(n) == {n \div 2}

\* clock value at which the event object is constructed: the counter wraps
\* four ticks later
BootTimes == {ClockMod - 4 * TickMs}

VARIABLES
    kind,                 \* the concrete class of the event instance
    _style,               \* SignalEvent::_style
    NUMBER_USED_PIXELS,   \* usable pixel count N
    NUMBER_TURN_PIXELS,   \* signal pixel count M
    boot,                 \* millis() when the event was constructed
    now,                  \* millis()
    _eventStart,          \* LightingEvent::_eventStart
    _active,              \* LightingEvent::_active
    pixels,               \* the strip's pixel buffer, 0 .. N-1
    ops,                  \* sink and delay operations of the last step, in order
    call,                 \* the last step: what it was and what it read
    other                 \* _eventStart and _active of the second instance

vars == <<kind, _style, NUMBER_USED_PIXELS, NUMBER_TURN_PIXELS, boot, now,
          _eventStart, _active, pixels, ops, call, other>>

config == <<kind, _style, NUMBER_USED_PIXELS, NUMBER_TURN_PIXELS, boot>>

(***************************************************************************)
(* The sink (Adafruit_NeoPixel) and the blocking delay.                    *)
(***************************************************************************)
SetOp(i, c) == [op |-> "set",   i |-> i,  c |-> c,  ms |-> 0]
ShowOp      == [op |-> "show",  i |-> -1, c |-> "", ms |-> 0]
DelayOp(d)  == [op |-> "delay", i |-> -1, c |-> "", ms |-> d]
\* a failed assert(): the program stops inside the call
AbortOp     == [op |-> "abort", i |-> -1, c |-> "", ms |-> 0]

\* the pixel buffer after the operations `s`, applied in order: each pixel
\* holds the color of the last setPixelColor that names it; setPixelColor
\* ignores an index outside the buffer
ApplyOps(buf, s) ==
    [i \in DOMAIN buf |->
        LET ks == {k \in DOMAIN s : s[k].op = "set" /\ s[k].i = i}
        IN  IF ks = {} THEN buf[i]
            ELSE s[CHOOSE k \in ks : \A j \in ks : j <= k].c]

\* the sequence ss[lo] \o ... \o ss[hi] of a sequence of sequences
RECURSIVE FlattenRange(_, _, _)
FlattenRange(ss, lo, hi) ==
    IF lo > hi THEN <<>>
    ELSE IF lo = hi THEN ss[lo]
    ELSE LET mid == (lo + hi) \div 2
         IN  FlattenRange(ss, lo, mid) \o FlattenRange(ss, mid + 1, hi)

Flatten(ss) == FlattenRange(ss, 1, Len(ss))

\* the sum of the delays in s[lo..hi]
RECURSIVE BlockedRange(_, _, _)
BlockedRange(s, lo, hi) ==
    IF lo > hi THEN 0
    ELSE IF lo = hi THEN s[lo].ms
    ELSE LET mid == (lo + hi) \div 2
         IN  BlockedRange(s, lo, mid) + BlockedRange(s, mid + 1, hi)

\* for how long the operations `s` block the caller
Blocked(s) == BlockedRange(s, 1, Len(s))

SetCount(s)   == Cardinality({k \in DOMAIN s : s[k].op = "set"})
ShowCount(s)  == Cardinality({k \in DOMAIN s : s[k].op = "show"})
DelayCount(s) == Cardinality({k \in DOMAIN s : s[k].op = "delay"})
Written(s)    == {s[k].i : k \in {j \in DOMAIN s : s[j].op = "set"}}

(***************************************************************************)
(* LightingEvent                                                           *)
(***************************************************************************)
\* the distance between the two counter values, taken without the wraparound
ElapsedMs_NoWrap(clock) ==
    IF clock >= _eventStart THEN clock - _eventStart ELSE _eventStart - clock


\* (millis() - _eventStart): unsigned subtraction in the counter's width
ElapsedMs(clock) == (clock - _eventStart) % ClockMod

\* TimeElapsedTotal() with millis() = clock
TimeElapsedTotal(clock) == FDivInts(ElapsedMs(clock), 1000)

GetActive == _active

Uptime == (now - boot) % ClockMod

HorizonMs ==
    CASE kind = "BackupEvent"    -> BackupHorizonMs
      [] kind = "BrakingEvent"   -> BrakingHorizonMs
      [] kind = "SignalEvent"    -> SignalHorizonMs
      [] kind = "PoliceLightBar" -> PoliceHorizonMs

NoCall == [op |-> "None", active0 |-> FALSE, t0 |-> 0, elapsed |-> -1,
           life |-> "None", begunAt |-> -1]

Init ==
    /\ kind \in Kinds
    /\ NUMBER_USED_PIXELS \in UsedPixelCounts
    /\ NUMBER_TURN_PIXELS \in
          IF kind = "SignalEvent" THEN TurnPixelCounts(NUMBER_USED_PIXELS)
          ELSE {NUMBER_USED_PIXELS \div 2}
    /\ _style \in IF kind = "SignalEvent" THEN SIGNAL_STYLE ELSE {INVALID}
    /\ boot \in BootTimes
    /\ now = boot
    /\ _eventStart = 0
    /\ _active = FALSE
    /\ pixels \in {[i \in 0 .. NUMBER_USED_PIXELS - 1 |-> c] :
                      c \in {COLOR_BLACK, COLOR_WHITE}}
    /\ ops = <<>>
    /\ call = NoCall
    /\ other = [_eventStart |-> 0, _active |-> FALSE]

\* by how much the clock advances between two calls
StepMs == IF kind = "BackupEvent" THEN BackupTickMs ELSE TickMs

\* the clock advances between two calls
Tick ==
    /\ Uptime + StepMs <= HorizonMs
    /\ now' = (now + StepMs) % ClockMod
    /\ ops' = <<>>
    /\ call' = [op |-> "Tick", active0 |-> _active, t0 |-> now,
                elapsed |-> -1, life |-> call.life, begunAt |-> call.begunAt]
    /\ UNCHANGED <<config, _eventStart, _active, pixels, other>>

\* a Begin() that re-arms only an inactive event
BeginBody_KeepStart ==
    /\ _active' = TRUE
    /\ _eventStart' = IF _active THEN _eventStart ELSE now


BeginBody ==
    /\ _active' = TRUE
    /\ _eventStart' = now

Begin ==
    /\ BeginBody
    /\ ops' = <<>>
    /\ call' = [op |-> "Begin", active0 |-> _active, t0 |-> now,
                elapsed |-> -1, life |-> "Begin", begunAt |-> now]
    /\ UNCHANGED <<config, now, pixels, other>>

\* an End() whose loop stops one pixel short
EndOps_SkipLast ==
    [i \in 1 .. NUMBER_USED_PIXELS - 1 |-> SetOp(i - 1, COLOR_BLACK)]
    \o <<ShowOp>>


EndOps ==
    [i \in 1 .. NUMBER_USED_PIXELS |-> SetOp(i - 1, COLOR_BLACK)] \o <<ShowOp>>

\* an End() that clears a flag shared by all events bound to the strip
End_SharedFlag ==
    /\ _active' = FALSE
    /\ other' = [other EXCEPT !._active = FALSE]
    /\ ops' = EndOps
    /\ pixels' = ApplyOps(pixels, EndOps)
    /\ call' = [op |-> "End", active0 |-> _active, t0 |-> now,
                elapsed |-> -1, life |-> "End", begunAt |-> call.begunAt]
    /\ UNCHANGED <<config, now, _eventStart>>


End ==
    /\ _active' = FALSE
    /\ ops' = EndOps
    /\ pixels' = ApplyOps(pixels, EndOps)
    /\ call' = [op |-> "End", active0 |-> _active, t0 |-> now,
                elapsed |-> -1, life |-> "End", begunAt |-> call.begunAt]
    /\ UNCHANGED <<config, now, _eventStart, other>>

OneF == FromInt(1)

(***************************************************************************)
(* BackupEvent                                                             *)
(***************************************************************************)
BackupBloomTimeLog2 == -2      \* BLOOM_TIME = 0.25f = 2^-2

\* a bloom that takes twice as long
BackupLEDs_SlowBloom(clock) ==
    LET fPercentComplete ==
            FMin(FScale(TimeElapsedTotal(clock), -BackupBloomTimeLog2 - 1), OneF)
    IN  FTrunc(FMulInt(NUMBER_USED_PIXELS, fPercentComplete))


\* cLEDs of BackupEvent::Draw with millis() = clock
BackupLEDs(clock) ==
    LET fPercentComplete ==
            FMin(FScale(TimeElapsedTotal(clock), -BackupBloomTimeLog2), OneF)
    IN  FTrunc(FMulInt(NUMBER_USED_PIXELS, fPercentComplete))

\* a loop that takes iLast as the first pixel past the lit range
BackupOps_ExclusiveLast(clock) ==
    LET cLEDs  == BackupLEDs(clock)
        iFirst == (NUMBER_USED_PIXELS \div 2) - (cLEDs \div 2)
        iLast  == (NUMBER_USED_PIXELS \div 2) + (cLEDs \div 2)
    IN  [k \in 1 .. NUMBER_USED_PIXELS |->
            IF k - 1 < iFirst \/ k - 1 >= iLast
            THEN SetOp(k - 1, COLOR_BLACK)
            ELSE SetOp(k - 1, COLOR_WHITE)] \o <<ShowOp>>


BackupOps(clock) ==
    LET cLEDs  == BackupLEDs(clock)
        iFirst == (NUMBER_USED_PIXELS \div 2) - (cLEDs \div 2)
        iLast  == (NUMBER_USED_PIXELS \div 2) + (cLEDs \div 2)
    IN  [k \in 1 .. NUMBER_USED_PIXELS |->
            IF k - 1 < iFirst \/ k - 1 > iLast
            THEN SetOp(k - 1, COLOR_BLACK)
            ELSE SetOp(k - 1, COLOR_WHITE)] \o <<ShowOp>>

(***************************************************************************)
(* BrakingEvent                                                            *)
(***************************************************************************)
BRAKE_STROBE_DURATION == Round(1, -1)          \* 0.5f
BLOOM_START_SIZE      == FDivInts(1, 10)       \* (float) 0.10
BrakeBloomTimeLog2    == -1                    \* BLOOM_TIME = 0.50 = 2^-1
StrobeOnMs  == 30
StrobeOffMs == 20

\* unusedEachEnd of BrakingEvent::Draw with millis() = clock
BrakeUnusedEachEnd(clock) ==
    LET timeElapsed == TimeElapsedTotal(clock)
        pctComplete == FMin(OneF, FAdd(FScale(timeElapsed, -BrakeBloomTimeLog2),
                                       BLOOM_START_SIZE))
    IN  FScale(FMulInt(NUMBER_USED_PIXELS, FSub(OneF, pctComplete)), -1)

\* the indices the loop  for (uint16_t i = u; i < N - u; i++)  visits
BrakeBar(u) ==
    {i \in 0 .. NUMBER_USED_PIXELS - 1 :
        /\ i >= FTrunc(u)
        /\ FLess(FromInt(i), FSub(FromInt(NUMBER_USED_PIXELS), u))}

\* setPixelColor(i, color) for the indices of `bar` in increasing order
RECURSIVE BarOps(_, _, _)
BarOps(i, bar, color) ==
    IF i >= NUMBER_USED_PIXELS THEN <<>>
    ELSE (IF i \in bar THEN <<SetOp(i, color)>> ELSE <<>>)
         \o BarOps(i + 1, bar, color)

\* the strobe phase taken to include its end point
BrakeStrobing_Leq(clock) ==
    FLeq(TimeElapsedTotal(clock), BRAKE_STROBE_DURATION)


BrakeStrobing(clock) == FLess(TimeElapsedTotal(clock), BRAKE_STROBE_DURATION)

\* the dark-red bar sized with the elapsed time read at entry
BrakingOps_NoRecompute(clock) ==
    IF BrakeStrobing(clock)
    THEN BarOps(0, BrakeBar(BrakeUnusedEachEnd(clock)), COLOR_RED)
         \o <<ShowOp, DelayOp(StrobeOnMs)>>
         \o BarOps(0, BrakeBar(BrakeUnusedEachEnd(clock)), COLOR_DARK_RED)
         \o <<ShowOp, DelayOp(StrobeOffMs)>>
    ELSE [k \in 1 .. NUMBER_USED_PIXELS |-> SetOp(k - 1, COLOR_RED)]
         \o <<ShowOp>>

\* a strobe that blanks the margins before it paints the bar
BrakingOps_BlankMargin(clock) ==
    IF BrakeStrobing(clock)
    THEN [k \in 1 .. NUMBER_USED_PIXELS |-> SetOp(k - 1, COLOR_BLACK)]
         \o BarOps(0, BrakeBar(BrakeUnusedEachEnd(clock)), COLOR_RED)
         \o <<ShowOp, DelayOp(StrobeOnMs)>>
         \o BarOps(0, BrakeBar(BrakeUnusedEachEnd((clock + StrobeOnMs) % ClockMod)),
                   COLOR_DARK_RED)
         \o <<ShowOp, DelayOp(StrobeOffMs)>>
    ELSE [k \in 1 .. NUMBER_USED_PIXELS |-> SetOp(k - 1, COLOR_RED)]
         \o <<ShowOp>>


BrakingOps(clock) ==
    IF BrakeStrobing(clock)
    THEN BarOps(0, BrakeBar(BrakeUnusedEachEnd(clock)), COLOR_RED)
         \o <<ShowOp, DelayOp(StrobeOnMs)>>
         \o BarOps(0, BrakeBar(BrakeUnusedEachEnd((clock + StrobeOnMs) % ClockMod)),
                   COLOR_DARK_RED)
         \o <<ShowOp, DelayOp(StrobeOffMs)>>
    ELSE [k \in 1 .. NUMBER_USED_PIXELS |-> SetOp(k - 1, COLOR_RED)]
         \o <<ShowOp>>

(***************************************************************************)
(* SignalEvent                                                             *)
(***************************************************************************)
SequentialBloomStart == ZeroF
SequentialBloomTime  == Round(1, -1)           \* 0.50f
\* a hold phase that starts a quarter of a second after the bloom's end
SequentialHoldStart_Late == Round(3, -2)


SequentialHoldStart  == FAdd(SequentialBloomStart, SequentialBloomTime)
\* a hold phase half as long, so that the fade starts at 0.625 s
SequentialHoldTime_Short == Round(1, -3)


SequentialHoldTime   == Round(1, -2)           \* 0.25f
SequentialFadeStart  == FAdd(SequentialHoldStart, SequentialHoldTime)
SequentialFadeTime   == Round(1, -3)           \* 0.125f
SequentialOffStart   == FAdd(SequentialFadeStart, SequentialFadeTime)
SequentialOffTime    == Round(1, -2)           \* 0.25f
SequentialCycleTime  == FAdd(SequentialOffStart, SequentialOffTime)

\* the mirrored index taken one too far
SetTurnLED_OffByOne(i, color) ==
    (IF _style = LEFT_TURN \/ _style = HAZARD
     THEN <<SetOp(i, color)>> ELSE <<>>)
    \o
    (IF _style = RIGHT_TURN \/ _style = HAZARD
     THEN <<SetOp(NUMBER_USED_PIXELS - 2 - i, color)>> ELSE <<>>)

\* every style but INVALID treated as a hazard
SetTurnLED_BothEnds(i, color) ==
    IF _style = INVALID THEN <<>>
    ELSE <<SetOp(i, color), SetOp(NUMBER_USED_PIXELS - 1 - i, color)>>

\* SetTurnLED(i, color): the writes it makes, in order
SetTurnLED(i, color) ==
    (IF _style = LEFT_TURN \/ _style = HAZARD
     THEN <<SetOp(i, color)>> ELSE <<>>)
    \o
    (IF _style = RIGHT_TURN \/ _style = HAZARD
     THEN <<SetOp(NUMBER_USED_PIXELS - 1 - i, color)>> ELSE <<>>)

\* fCyclePosition = fmod(TimeElapsedTotal(), SequentialCycleTime)
CyclePosition(clock) == FMod(TimeElapsedTotal(clock), SequentialCycleTime)

\* the branch Draw takes
SignalPhase(c) ==
    IF FLess(SequentialOffStart, c) THEN "off"
    ELSE IF FLess(SequentialFadeStart, c) THEN "fade"
    ELSE IF FLess(SequentialHoldStart, c) THEN "hold"
    ELSE "bloom"

\* cPixelsLit of the fade branch
FadePixelsLit(c) ==
    LET pctComplete == FScale(FSub(c, SequentialFadeStart), 3)
    IN  FTrunc(FSub(FromInt(NUMBER_TURN_PIXELS),
                    FMulInt(NUMBER_TURN_PIXELS, pctComplete)))

\* cPixelsLit of the bloom branch
BloomPixelsLit(c) ==
    LET pctComplete == FScale(c, 1)
    IN  FTrunc(FMulInt(NUMBER_TURN_PIXELS, pctComplete))

\* the color Draw hands to SetTurnLED for index i, 0 <= i < M
SignalColor(c, i) ==
    LET phase == SignalPhase(c)
    IN  IF phase = "off" THEN COLOR_BLACK
        ELSE IF phase = "fade"
        THEN (IF i < FadePixelsLit(c) THEN COLOR_AMBER ELSE COLOR_BLACK)
        ELSE IF phase = "hold" THEN COLOR_AMBER
        ELSE (IF i >= NUMBER_TURN_PIXELS - BloomPixelsLit(c)
              THEN COLOR_AMBER ELSE COLOR_BLACK)

\* assert(fCyclePosition <= SequentialBloomTime) of the bloom branch
BloomAssert(c) == FLeq(c, SequentialBloomTime)

SignalOps(clock) ==
    LET c == CyclePosition(clock)
    IN  IF SignalPhase(c) = "bloom" /\ ~BloomAssert(c)
        THEN <<AbortOp>>
        ELSE Flatten([k \in 1 .. NUMBER_TURN_PIXELS |->
                         SetTurnLED(k - 1, SignalColor(c, k - 1))])
             \o <<ShowOp>>

(***************************************************************************)
(* PoliceLightBar                                                          *)
(***************************************************************************)
B == COLOR_BLUE
R == COLOR_RED
W == COLOR_WHITE

\* each row: sectionColor[0..7] as a sequence 1..8, and the duration
_PoliceBarStates1 == <<
    [sectionColor |-> <<B, B, R, R, B, B, R, R>>, duration |-> 200],
    [sectionColor |-> <<R, R, B, B, R, R, B, B>>, duration |-> 200],
    [sectionColor |-> <<W, B, R, R, B, B, R, R>>, duration |-> 20],
    [sectionColor |-> <<B, B, R, R, B, B, R, W>>, duration |-> 20],
    [sectionColor |-> <<B, W, R, R, B, B, R, R>>, duration |-> 20],
    [sectionColor |-> <<B, B, R, R, B, B, W, R>>, duration |-> 20],
    [sectionColor |-> <<B, B, W, R, B, B, R, R>>, duration |-> 20],
    [sectionColor |-> <<B, B, R, R, B, W, R, R>>, duration |-> 20],
    [sectionColor |-> <<B, B, R, W, B, B, R, R>>, duration |-> 20],
    [sectionColor |-> <<B, B, R, R, W, B, R, R>>, duration |-> 20],
    [sectionColor |-> <<R, R, B, B, R, R, B, B>>, duration |-> 200] >>

PoliceRows == Len(_PoliceBarStates1)

sectionSize == NUMBER_USED_PIXELS \div SectionCount

\* the position within the section taken for the section index
Section_Remainder(i) == i % sectionSize


\* iSection = i / sectionSize
Section(i) == i \div sectionSize

\* the section indices past the end of sectionColor[8] that Draw reads
OobSections == {Section(i) : i \in 0 .. NUMBER_USED_PIXELS - 1}
                  \ (0 .. SectionCount - 1)

\* _PoliceBarStates1[row].sectionColor[iSection]; a read past the array's end
\* yields whatever `oob` says lies there
SectionColorRead(row, iSection, oob) ==
    IF iSection < SectionCount
    THEN _PoliceBarStates1[row + 1].sectionColor[iSection + 1]
    ELSE oob[iSection]

PoliceRowOps(row, oob) ==
    [k \in 1 .. NUMBER_USED_PIXELS |->
        SetOp(k - 1, SectionColorRead(row, Section(k - 1), oob))]
    \o <<ShowOp, DelayOp(_PoliceBarStates1[row + 1].duration)>>

PoliceOps(oob) ==
    Flatten([r \in 1 .. PoliceRows |-> PoliceRowOps(r - 1, oob)])

(***************************************************************************)
(* Draw(): virtual dispatch on the concrete class.  The whole call is one  *)
(* step: the program is single-threaded and Draw blocks in delay().        *)
(***************************************************************************)
DrawStep(k, newOps, readsClock) ==
    /\ kind = k
    /\ Uptime + Blocked(newOps) <= HorizonMs
    /\ ops' = newOps
    /\ pixels' = ApplyOps(pixels, newOps)
    /\ now' = (now + Blocked(newOps)) % ClockMod
    /\ call' = [op |-> "Draw", active0 |-> _active, t0 |-> now,
                elapsed |-> IF readsClock THEN ElapsedMs(now) ELSE -1,
                life |-> call.life, begunAt |-> call.begunAt]
    /\ UNCHANGED <<config, _eventStart, _active, other>>

\* a Draw() without its GetActive() check
DrawBackup_NoGuard == DrawStep("BackupEvent", BackupOps(now), TRUE)

DrawBackup ==
    DrawStep("BackupEvent",
             IF GetActive THEN BackupOps(now) ELSE <<>>, GetActive)

DrawBraking ==
    DrawStep("BrakingEvent",
             IF GetActive THEN BrakingOps(now) ELSE <<>>, GetActive)

DrawSignal ==
    DrawStep("SignalEvent",
             IF GetActive THEN SignalOps(now) ELSE <<>>, GetActive)

DrawPolice ==
    IF GetActive
    THEN \E oob \in [OobSections -> OobValues] :
            DrawStep("PoliceLightBar", PoliceOps(oob), FALSE)
    ELSE DrawStep("PoliceLightBar", <<>>, FALSE)

Next ==
    \/ Tick
    \/ Begin
    \/ End
    \/ DrawBackup
    \/ DrawBraking
    \/ DrawSignal
    \/ DrawPolice

Spec == Init /\ [][Next]_vars

(***************************************************************************)
(* Two events on one strip: the event above, a BrakingEvent, and a second  *)
(* instance, a BackupEvent, constructed with the same pStrip.  Each object *)
(* has its own _eventStart and _active; both write the same pixel buffer.  *)
(***************************************************************************)
\* TimeElapsedTotal() of the second instance
OtherTimeElapsedTotal(clock) ==
    FDivInts((clock - other._eventStart) % ClockMod, 1000)

\* BackupEvent::Draw of the second instance
OtherBackupOps(clock) ==
    LET fPercentComplete ==
            FMin(FScale(OtherTimeElapsedTotal(clock), -BackupBloomTimeLog2),
                 OneF)
        cLEDs  == FTrunc(FMulInt(NUMBER_USED_PIXELS, fPercentComplete))
        iFirst == (NUMBER_USED_PIXELS \div 2) - (cLEDs \div 2)
        iLast  == (NUMBER_USED_PIXELS \div 2) + (cLEDs \div 2)
    IN  [k \in 1 .. NUMBER_USED_PIXELS |->
            IF k - 1 < iFirst \/ k - 1 > iLast
            THEN SetOp(k - 1, COLOR_BLACK)
            ELSE SetOp(k - 1, COLOR_WHITE)] \o <<ShowOp>>

OtherCall(name) ==
    [op |-> name, active0 |-> other._active, t0 |-> now, elapsed |-> -1,
     life |-> call.life, begunAt |-> call.begunAt]

OtherBegin ==
    /\ other' = [_eventStart |-> now, _active |-> TRUE]
    /\ ops' = <<>>
    /\ call' = OtherCall("OtherBegin")
    /\ UNCHANGED <<config, now, _eventStart, _active, pixels>>

OtherEnd ==
    /\ other' = [other EXCEPT !._active = FALSE]
    /\ ops' = EndOps
    /\ pixels' = ApplyOps(pixels, EndOps)
    /\ call' = OtherCall("OtherEnd")
    /\ UNCHANGED <<config, now, _eventStart, _active>>

OtherDraw ==
    LET newOps == IF other._active THEN OtherBackupOps(now) ELSE <<>>
    IN  /\ ops' = newOps
        /\ pixels' = ApplyOps(pixels, newOps)
        /\ call' = OtherCall("OtherDraw")
        /\ UNCHANGED <<config, now, _eventStart, _active, other>>

InitTwo ==
    /\ Init
    /\ kind = "BrakingEvent"
    /\ NUMBER_USED_PIXELS = SectionCount

\* the clock advances, by itself or in a Draw() of the BrakingEvent
TickTwo == Uptime < TwoHorizonMs /\ Tick
DrawBrakingTwo == Uptime < TwoHorizonMs /\ DrawBraking

NextTwo ==
    \/ TickTwo
    \/ Begin
    \/ End
    \/ DrawBrakingTwo
    \/ OtherBegin
    \/ OtherEnd
    \/ OtherDraw

SpecTwo == InitTwo /\ [][NextTwo]_vars

(***************************************************************************)
(* Properties                                                              *)
(***************************************************************************)
N == NUMBER_USED_PIXELS
M == NUMBER_TURN_PIXELS

\* the last step was a Draw() of the class k on an active event
ActiveDraw(k) == call.op = "Draw" /\ call.active0 /\ kind = k

\* SequentialCycleTime in milliseconds
CycleMs == 1125
\* the cycle position, in milliseconds, of the time the last Draw() read
CycleMsOfCall == call.elapsed % CycleMs

\* how many of the pixels 0 .. M-1 show amber
LitCount == Cardinality({i \in 0 .. M - 1 : pixels[i] = COLOR_AMBER})

Abs(x) == IF x < 0 THEN -x ELSE x

\* C1: a Draw() made while GetActive() is false performs no sink operation
\* (no setPixelColor, no show) and no delay, and leaves the pixel buffer and
\* the clock as they were; for each of the four classes.
C1_InactiveDrawIsNoOp ==
    [][(call'.op = "Draw" /\ ~_active)
          => /\ SetCount(ops') = 0
             /\ ShowCount(ops') = 0
             /\ DelayCount(ops') = 0
             /\ pixels' = pixels
             /\ now' = now]_vars

\* a Draw() on an event that was begun and ended, over a strip not blanked since
C1_Witness ==
    /\ call.op = "Draw"
    /\ ~call.active0
    /\ call.life = "End"
    /\ ops = <<>>

\* C2: End(), whether the event was active or not, leaves the event inactive
\* and every usable pixel black, and performs exactly one show.
C2_EndBlanksAndFlushesOnce ==
    call.op = "End"
        => /\ ~_active
           /\ \A i \in 0 .. N - 1 : pixels[i] = COLOR_BLACK
           /\ SetCount(ops) = N
           /\ ShowCount(ops) = 1
           /\ DelayCount(ops) = 0

\* End() on an event that was not active
C2_Witness ==
    /\ call.op = "End"
    /\ ~call.active0
    /\ \A i \in 0 .. N - 1 : pixels[i] = COLOR_BLACK

\* C3: Begin() sets the event active and its timestamp to the current clock,
\* also when the event is already active; the elapsed time an active Draw()
\* reads counts from the latest Begin(); the event is active exactly when its
\* last lifecycle call was Begin(), so it is inactive after construction.
C3_BeginRearms ==
    /\ call.op = "Begin"
          => _active /\ _eventStart = now /\ ops = <<>>
    /\ _active <=> call.life = "Begin"
    /\ call.life = "Begin" => _eventStart = call.begunAt
    /\ (call.op = "Draw" /\ call.active0 /\ call.elapsed # -1)
          => call.elapsed = (call.t0 - call.begunAt) % ClockMod

\* a Begin() on an event that was already active, later than its first Begin()
C3_Witness ==
    /\ call.op = "Begin"
    /\ call.active0
    /\ Uptime > 0
    /\ _eventStart = now

\* the operations the police bar's Draw() is to make: per row, the row's
\* section color on every usable pixel (the section index clamped to 7),
\* one show, and a delay of the row's duration
PoliceExpectedRow(row) ==
    [k \in 1 .. N |->
        SetOp(k - 1,
              _PoliceBarStates1[row + 1].sectionColor[
                  (IF Section(k - 1) > SectionCount - 1 THEN SectionCount - 1
                   ELSE Section(k - 1)) + 1])]
    \o <<ShowOp, DelayOp(_PoliceBarStates1[row + 1].duration)>>

PoliceExpectedOps ==
    Flatten([r \in 1 .. PoliceRows |-> PoliceExpectedRow(r - 1)])

\* C4: one Draw() on an active PoliceLightBar performs exactly 11 shows, one
\* per table row from row 0 to row 10, each preceded by the row's section
\* colors written to all usable pixels and followed by a delay of the row's
\* duration, whatever the elapsed time.
C4_PolicePlaysTable ==
    ActiveDraw("PoliceLightBar")
        => /\ ShowCount(ops) = PoliceRows
           /\ ops = PoliceExpectedOps

\* C5: for every usable pixel count N >= 8 and every pixel, the section index
\* the police bar's Draw() uses is within 0..7 and the color it writes is one
\* of the row's 8 section colors.
C5_SectionIndexInRange ==
    ActiveDraw("PoliceLightBar")
        => /\ \A i \in 0 .. N - 1 : Section(i) \in 0 .. SectionCount - 1
           /\ \A r \in 1 .. PoliceRows : \A k \in 1 .. N :
                 ops[(r - 1) * (N + 2) + k].c \in
                     {_PoliceBarStates1[r].sectionColor[j] :
                          j \in 1 .. SectionCount}

\* C6: with style LEFT_TURN, at cycle positions from 0.625 s to 0.75 s the
\* number of amber pixels decreases linearly to 0 (to within one pixel).
C6_FadeFrom625 ==
    (ActiveDraw("SignalEvent") /\ _style = LEFT_TURN
     /\ CycleMsOfCall >= 625 /\ CycleMsOfCall <= 750)
        => Abs(LitCount * 125 - M * (750 - CycleMsOfCall)) <= 125

\* C6, amended: with style LEFT_TURN, at cycle positions from 0.625 s to
\* 0.75 s all M signal pixels are amber; the number of amber pixels decreases
\* linearly to 0 (to within one pixel) at cycle positions from 0.75 s to
\* 0.875 s, the amber pixels being the low indices.
C6_FadeFrom750 ==
    (ActiveDraw("SignalEvent") /\ _style = LEFT_TURN)
        => /\ (CycleMsOfCall >= 625 /\ CycleMsOfCall <= 750)
                 => LitCount = M
           /\ (CycleMsOfCall > 750 /\ CycleMsOfCall <= 875)
                 => /\ Abs(LitCount * 125 - M * (875 - CycleMsOfCall)) <= 125
                    /\ \A i \in 0 .. M - 1 :
                          pixels[i] = IF i < LitCount THEN COLOR_AMBER
                                      ELSE COLOR_BLACK
           /\ CycleMsOfCall = 875 => LitCount = 0

\* a left-turn Draw() in the middle of the fade: some pixels lit, some not
C6_Witness ==
    /\ ActiveDraw("SignalEvent")
    /\ _style = LEFT_TURN
    /\ CycleMsOfCall > 750
    /\ CycleMsOfCall < 875
    /\ LitCount > 0
    /\ LitCount < M

\* C7: with style HAZARD (and M <= N/2), after every Draw() on an active
\* event pixel i and pixel N-1-i hold the same color, for every i in 0..M-1.
C7_HazardMirrors ==
    (ActiveDraw("SignalEvent") /\ _style = HAZARD)
        => \A i \in 0 .. M - 1 : pixels[i] = pixels[N - 1 - i]

\* a hazard Draw() that lit some signal pixels and not others
C7_Witness ==
    /\ ActiveDraw("SignalEvent")
    /\ _style = HAZARD
    /\ \E i, j \in 0 .. M - 1 :
          pixels[i] = COLOR_AMBER /\ pixels[j] = COLOR_BLACK
    /\ pixels[N - 1] = COLOR_AMBER

\* C8: a left-turn Draw() writes only the pixels 0..M-1 and leaves N-M..N-1 as
\* they were (at cycle position 0 all of 0..M-1 are off); a right-turn Draw()
\* writes only the pixels N-1-i, i in 0..M-1, and leaves 0..M-1 as they were;
\* for every style the pixels between the two ranges are never written.
C8_SignalAddressing ==
    [][(call'.op = "Draw" /\ _active /\ kind = "SignalEvent")
          => /\ _style = LEFT_TURN
                   => /\ Written(ops') \subseteq 0 .. M - 1
                      /\ \A i \in N - M .. N - 1 : pixels'[i] = pixels[i]
                      /\ ElapsedMs(now) % CycleMs = 0
                            => \A i \in 0 .. M - 1 : pixels'[i] = COLOR_BLACK
             /\ _style = RIGHT_TURN
                   => /\ Written(ops') \subseteq {N - 1 - i : i \in 0 .. M - 1}
                      /\ \A i \in 0 .. M - 1 : pixels'[i] = pixels[i]
             /\ \A i \in M .. N - M - 1 :
                   i \notin Written(ops') /\ pixels'[i] = pixels[i]]_vars

\* a left-turn Draw() over a strip left white: the signal range is redrawn,
\* the middle and the mirrored range still show white
C8_Witness ==
    /\ ActiveDraw("SignalEvent")
    /\ _style = LEFT_TURN
    /\ Written(ops) = 0 .. M - 1
    /\ \E i \in 0 .. M - 1 : pixels[i] = COLOR_AMBER
    /\ \A i \in M .. N - 1 : pixels[i] = COLOR_WHITE
    /\ M < N - M

\* C9: while the event stays active with no new Begin(), the colors Draw()
\* writes to the signal pixels at elapsed time t + 1.125 s are those it
\* writes to them at elapsed time t.
C9_Periodic ==
    (ActiveDraw("SignalEvent") /\ call.elapsed >= CycleMs)
        => ops = SignalOps((call.t0 - CycleMs) % ClockMod)

\* the time since the latest Begin() at the last step's entry, in ms,
\* measured on the unwrapped clock
SinceBegin ==
    ((call.t0 - boot) % ClockMod) - ((call.begunAt - boot) % ClockMod)

\* C10: every Draw() on an active BrakingEvent made 0.5 s or more after the
\* latest Begin() sets all usable pixels to red with exactly one show and no
\* delay: from 0.5 s on this holds for every Draw() until End() or Begin().
C10_BrakeSteady ==
    (ActiveDraw("BrakingEvent") /\ SinceBegin >= 500)
        => /\ \A i \in 0 .. N - 1 : pixels[i] = COLOR_RED
           /\ SetCount(ops) = N
           /\ ShowCount(ops) = 1
           /\ DelayCount(ops) = 0
           /\ now = call.t0

\* a Draw() exactly 0.5 s after Begin(), reached through a strobing Draw()
C10_Witness ==
    /\ ActiveDraw("BrakingEvent")
    /\ call.elapsed = 500
    /\ ShowCount(ops) = 1
    /\ \A i \in 0 .. N - 1 : pixels[i] = COLOR_RED

\* the positions of the show operations of the last step
Shows == {k \in DOMAIN ops : ops[k].op = "show"}
FirstShow == CHOOSE k \in Shows : \A j \in Shows : k <= j
LastShow  == CHOOSE k \in Shows : \A j \in Shows : j <= k
\* the pixels written before the first show, and between the two shows
WrittenBright == {ops[k].i : k \in 1 .. FirstShow - 1}
WrittenDark   == {ops[k].i : k \in FirstShow + 2 .. LastShow - 1}

\* the last step was a Draw() on an active BrakingEvent that read an elapsed
\* time below 0.5 s
StrobeDraw == ActiveDraw("BrakingEvent") /\ call.elapsed < 500

\* C11: every Draw() on an active BrakingEvent with elapsed < 0.5 s at entry
\* performs, in this order: bright-red bar writes, a show, a 30 ms delay,
\* dark-red writes of the bar sized at the elapsed time 30 ms later, a show,
\* a 20 ms delay; so exactly two shows and 50 ms of blocking, and the pixels
\* the call wrote show dark red when it returns.
C11_StrobeSequence ==
    StrobeDraw
        => /\ ShowCount(ops) = 2
           /\ DelayCount(ops) = 2
           /\ FirstShow > 1
           /\ \A k \in 1 .. FirstShow - 1 :
                 ops[k].op = "set" /\ ops[k].c = COLOR_RED
           /\ ops[FirstShow + 1] = DelayOp(StrobeOnMs)
           /\ LastShow > FirstShow + 2
           /\ \A k \in FirstShow + 2 .. LastShow - 1 :
                 ops[k].op = "set" /\ ops[k].c = COLOR_DARK_RED
           /\ ops[LastShow + 1] = DelayOp(StrobeOffMs)
           /\ Len(ops) = LastShow + 1
           /\ WrittenBright = BrakeBar(BrakeUnusedEachEnd(call.t0))
           /\ WrittenDark =
                 BrakeBar(BrakeUnusedEachEnd((call.t0 + StrobeOnMs) % ClockMod))
           /\ Blocked(ops) = StrobeOnMs + StrobeOffMs
           /\ now = (call.t0 + StrobeOnMs + StrobeOffMs) % ClockMod
           /\ \A i \in Written(ops) : pixels[i] = COLOR_DARK_RED

\* a strobing Draw() whose dark-red bar is wider than its bright-red bar
C11_Witness ==
    /\ StrobeDraw
    /\ ShowCount(ops) = 2
    /\ WrittenBright # WrittenDark
    /\ WrittenBright \subseteq WrittenDark

\* C12: every Draw() on an active BackupEvent made 0.25 s or more after the
\* latest Begin() sets every usable pixel 0..N-1 to white, with one show; so
\* from 0.25 s on every Draw() leaves the strip fully white, until End() or a
\* new Begin().
C12_BackupTerminal ==
    (ActiveDraw("BackupEvent") /\ SinceBegin >= 250)
        => /\ call.elapsed = SinceBegin
           /\ \A i \in 0 .. N - 1 : pixels[i] = COLOR_WHITE
           /\ Written(ops) = 0 .. N - 1
           /\ \A k \in DOMAIN ops : ops[k].op = "set" => ops[k].c = COLOR_WHITE
           /\ SetCount(ops) = N
           /\ ShowCount(ops) = 1
           /\ DelayCount(ops) = 0

\* a Draw() exactly 0.25 s after Begin(), on a strip of odd length
C12_Witness ==
    /\ ActiveDraw("BackupEvent")
    /\ call.elapsed = 250
    /\ N % 2 = 1
    /\ \A i \in 0 .. N - 1 : pixels[i] = COLOR_WHITE

\* the white pixels, and how many pixels lie before the first and after the
\* last of them
WhitePixels == {i \in 0 .. N - 1 : pixels[i] = COLOR_WHITE}
OffBefore == CHOOSE i \in WhitePixels : \A j \in WhitePixels : i <= j
OffAfter  == N - 1 - CHOOSE i \in WhitePixels : \A j \in WhitePixels : j <= i

\* the white pixels are one contiguous run and every other pixel is off
WhiteRun ==
    /\ \A i \in WhitePixels : \A j \in WhitePixels :
          \A k \in i .. j : k \in WhitePixels
    /\ \A i \in (0 .. N - 1) \ WhitePixels : pixels[i] = COLOR_BLACK

\* C13: after every Draw() on an active BackupEvent the white pixels form one
\* contiguous run with as many off pixels before the run as after it, and
\* every pixel outside the run is off.
C13_BackupSymmetric ==
    ActiveDraw("BackupEvent")
        => /\ WhiteRun
           /\ WhitePixels # {} => OffBefore = OffAfter

\* C13, amended: after every Draw() on an active BackupEvent the white pixels
\* form one contiguous run that extends equally far to both sides of pixel
\* N/2 (integer division), up to the strip's ends, and every pixel outside
\* the run is off; there are as many off pixels before the run as after it
\* when N is odd or the strip is fully white, and one more before it than
\* after it otherwise.
C13_BackupAroundMidpoint ==
    ActiveDraw("BackupEvent")
        => /\ WhiteRun
           /\ \E h \in 0 .. N :
                 WhitePixels = {i \in 0 .. N - 1 :
                                   i >= (N \div 2) - h /\ i <= (N \div 2) + h}
           /\ OffBefore - OffAfter =
                 IF N % 2 = 0 /\ WhitePixels # 0 .. N - 1 THEN 1 ELSE 0

\* a partly bloomed strip of even length: off pixels on both sides of the run
C13_Witness ==
    /\ ActiveDraw("BackupEvent")
    /\ N % 2 = 0
    /\ Cardinality(WhitePixels) > 1
    /\ OffAfter > 0
    /\ OffBefore = OffAfter + 1

\* C14: with the clock and _eventStart as w-bit unsigned counters, the elapsed
\* time a Draw() uses d < 2^w ms after the latest Begin() is d ms (as a float
\* number of seconds, d / 1000), also when the counter wrapped in between;
\* while the event stays active with no new Begin(), the elapsed time is
\* non-negative and never decreases from one step to the next.
C14_ElapsedAcrossWrap ==
    [][/\ (call'.op = "Draw" /\ _active /\ call'.elapsed # -1)
             => /\ call'.elapsed = SinceBegin'
                /\ call'.elapsed >= 0
                /\ ElapsedMs(now) = SinceBegin'
                /\ TimeElapsedTotal(now) = FDivInts(SinceBegin', 1000)
       /\ (_active /\ _active' /\ call'.op # "Begin")
             => /\ ElapsedMs(now') >= ElapsedMs(now)
                /\ ElapsedMs(now) >= 0
                /\ FLeq(TimeElapsedTotal(now), TimeElapsedTotal(now'))]_vars

\* a Draw() that reads the clock after the counter wrapped past zero since
\* the Begin()
C14_Witness ==
    /\ call.op = "Draw"
    /\ call.active0
    /\ call.elapsed > 0
    /\ call.t0 < call.begunAt
    /\ call.elapsed = call.t0 + ClockMod - call.begunAt

\* the color the r-th row's pass (r in 1..11) of the last Draw() wrote to pixel i
PoliceWrote(r, i) == ops[(r - 1) * (N + 2) + i + 1]

\* C15: when 8 divides N, for every table row the police bar's Draw() writes
\* to pixel i the color of section i / (N/8), so each section is N/8
\* contiguous pixels; for N = 16 pixels 0-1 get the color of section 0 and
\* pixels 14-15 the color of section 7.
C15_SectionMapping ==
    (ActiveDraw("PoliceLightBar") /\ N % SectionCount = 0)
        => /\ Len(ops) = PoliceRows * (N + 2)
           /\ \A r \in 1 .. PoliceRows : \A i \in 0 .. N - 1 :
                 PoliceWrote(r, i) =
                     SetOp(i, _PoliceBarStates1[r].sectionColor[
                                  (i \div (N \div SectionCount)) + 1])
           /\ N = 2 * SectionCount
                 => \A r \in 1 .. PoliceRows :
                       /\ PoliceWrote(r, 0).c = _PoliceBarStates1[r].sectionColor[1]
                       /\ PoliceWrote(r, 1).c = _PoliceBarStates1[r].sectionColor[1]
                       /\ PoliceWrote(r, N - 2).c =
                              _PoliceBarStates1[r].sectionColor[SectionCount]
                       /\ PoliceWrote(r, N - 1).c =
                              _PoliceBarStates1[r].sectionColor[SectionCount]

\* a Draw() of the police bar on 16 pixels: the strip is left showing the
\* last row, red on pixels 0-1 and blue on pixels 14-15
C15_Witness ==
    /\ ActiveDraw("PoliceLightBar")
    /\ N = 2 * SectionCount
    /\ pixels[0] = COLOR_RED /\ pixels[1] = COLOR_RED
    /\ pixels[2] = COLOR_RED /\ pixels[4] = COLOR_BLUE
    /\ pixels[N - 2] = COLOR_BLUE /\ pixels[N - 1] = COLOR_BLUE

\* the pixel that shows signal index i: SetTurnLED's target for a left turn
\* and for a hazard (whose two targets hold the same color), the mirrored
\* pixel for a right turn
SignalPixel(i) == IF _style = RIGHT_TURN THEN pixels[N - 1 - i] ELSE pixels[i]

\* the color of signal index i at cycle position cms (in ms), computed in
\* exact arithmetic
SignalExpected(cms, i) ==
    IF cms > 875 THEN COLOR_BLACK
    ELSE IF cms > 750
    THEN (IF i < (M * (875 - cms)) \div 125 THEN COLOR_AMBER ELSE COLOR_BLACK)
    ELSE IF cms > 500 THEN COLOR_AMBER
    ELSE (IF i >= M - ((M * cms) \div 500) THEN COLOR_AMBER ELSE COLOR_BLACK)

\* C16: with c = elapsed mod 1.125 s, an active Draw() of a SignalEvent turns
\* all M signal pixels off when c > 0.875 s; lights exactly the low indices
\* 0..k-1, k = M - M*(c-0.75)/0.125 truncated, when 0.75 s < c <= 0.875 s;
\* lights all M when 0.5 s < c <= 0.75 s; lights exactly the high indices
\* M-k..M-1, k = floor(M*c/0.5), when c <= 0.5 s; and performs exactly one
\* show.
C16_PhaseSelection ==
    ActiveDraw("SignalEvent")
        => /\ ShowCount(ops) = 1
           /\ _style # INVALID
                 => \A i \in 0 .. M - 1 :
                       SignalPixel(i) = SignalExpected(CycleMsOfCall, i)

\* C17: the assertion of the bloom branch of SignalEvent::Draw never fails:
\* whenever a Draw() takes the bloom branch (cycle position not greater than
\* SequentialHoldStart) the cycle position is <= SequentialBloomTime; for the
\* Draw() calls made, and for every elapsed time the counter can hold.
C17_BloomAssertHolds ==
    /\ ActiveDraw("SignalEvent")
          => /\ \A k \in DOMAIN ops : ops[k] # AbortOp
             /\ SignalPhase(CyclePosition(call.t0)) = "bloom"
                   => FLeq(CyclePosition(call.t0), SequentialBloomTime)
    /\ (kind = "SignalEvent" /\ call.op = "Begin" /\ Uptime = 0)
          => \A n \in 0 .. ClockMod - 1 :
                SignalPhase(CyclePosition(n)) = "bloom"
                    => BloomAssert(CyclePosition(n))

\* a Draw() that took the bloom branch in the second cycle and lit some of
\* the signal pixels
C17_Witness ==
    /\ ActiveDraw("SignalEvent")
    /\ _style = LEFT_TURN
    /\ call.elapsed > CycleMs
    /\ SignalPhase(CyclePosition(call.t0)) = "bloom"
    /\ pixels[M - 1] = COLOR_AMBER
    /\ pixels[0] = COLOR_BLACK
    /\ ShowCount(ops) = 1

\* the unpainted margin on each end at elapsed time e ms, in exact
\* arithmetic: (1 - pct) * N / 2 truncated, pct = min(1, e/500 + 1/10)
ExactMargin(e) == IF e >= 450 THEN 0 ELSE ((450 - e) * N) \div 1000

\* the margins a set of written pixels leaves on the low and on the high end
LowMargin(w)  == CHOOSE i \in w : \A j \in w : i <= j
HighMargin(w) == N - 1 - CHOOSE i \in w : \A j \in w : j <= i

\* C18: in the bloom-strobe phase, with pct = min(1, elapsed/0.5 + 0.10), the
\* bar Draw() paints leaves (1 - pct) * N / 2 pixels (truncated) unpainted on
\* each end, the same number on both ends (pct is 0.10 at elapsed 0); the bar
\* painted later is never narrower, and the dark-red bar covers every pixel
\* the bright-red bar painted.
C18_BrakeBarGeometry ==
    StrobeDraw
        => /\ LowMargin(WrittenBright) = ExactMargin(call.elapsed)
           /\ HighMargin(WrittenBright) = LowMargin(WrittenBright)
           /\ LowMargin(WrittenDark) = ExactMargin(call.elapsed + StrobeOnMs)
           /\ HighMargin(WrittenDark) = LowMargin(WrittenDark)
           /\ WrittenBright \subseteq WrittenDark
           /\ WrittenBright = LowMargin(WrittenBright)
                                .. N - 1 - HighMargin(WrittenBright)
           /\ WrittenDark = LowMargin(WrittenDark)
                              .. N - 1 - HighMargin(WrittenDark)

\* C19: a Draw() of a BrakingEvent in the bloom-strobe phase writes only the
\* pixels of the bar, one contiguous range, and never a margin pixel: every
\* pixel outside the bar keeps the color it had before the call (so it is
\* off afterwards only if it was off before), and every pixel of the bar
\* shows dark red.
C19_MarginKept ==
    [][(call'.op = "Draw" /\ _active /\ kind = "BrakingEvent"
        /\ ElapsedMs(now) < 500)
          => /\ Written(ops') # {}
             /\ \A i \in Written(ops') : \A j \in Written(ops') :
                   \A k \in i .. j : k \in Written(ops')
             /\ \A i \in (0 .. N - 1) \ Written(ops') : pixels'[i] = pixels[i]
             /\ \A i \in Written(ops') : pixels'[i] = COLOR_DARK_RED]_vars

\* a strobing Draw() over a strip another event left white: the margins on
\* both ends still show white around the dark-red bar
C19_Witness ==
    /\ StrobeDraw
    /\ pixels[0] = COLOR_WHITE
    /\ pixels[N - 1] = COLOR_WHITE
    /\ \E i \in 0 .. N - 1 : pixels[i] = COLOR_DARK_RED
    /\ 0 \notin Written(ops)
    /\ N - 1 \notin Written(ops)

\* C20: Begin() performs no sink write and no show; Begin() and End() on one
\* event change only that event's own _active and _eventStart, the other
\* event bound to the same strip keeps its own; so both events can be active
\* at once, and End() of one blanks the strip while the other stays active.
C20_EventsAreSeparate ==
    [][/\ call'.op = "Begin"
             => /\ ops' = <<>> /\ pixels' = pixels
                /\ _active' /\ _eventStart' = now
                /\ other' = other
       /\ call'.op = "End"
             => /\ ~_active' /\ _eventStart' = _eventStart
                /\ other' = other
                /\ \A i \in 0 .. N - 1 : pixels'[i] = COLOR_BLACK
       /\ call'.op = "OtherBegin"
             => /\ ops' = <<>> /\ pixels' = pixels
                /\ other'._active /\ other'._eventStart = now
                /\ _active' = _active /\ _eventStart' = _eventStart
       /\ call'.op = "OtherEnd"
             => /\ ~other'._active /\ other'._eventStart = other._eventStart
                /\ _active' = _active /\ _eventStart' = _eventStart
                /\ \A i \in 0 .. N - 1 : pixels'[i] = COLOR_BLACK]_vars

\* both events were active, begun at different times; End() of the first has
\* blanked the strip and the second is still active
C20_Witness ==
    /\ call.op = "End"
    /\ call.active0
    /\ ~_active
    /\ other._active
    /\ other._eventStart # _eventStart
    /\ \A i \in 0 .. N - 1 : pixels[i] = COLOR_BLACK

=============================================================================
